---------------------------- MODULE Spec2Model ----------------------------
(***************************************************************************)
(* A model of floodfill-bg: the colour metric, the two removal algorithms  *)
(* (flood-fill BFS and global purge), the seed resolver, the edge trimmer  *)
(* and the command-line driver.                                            *)
(*                                                                         *)
(* A pixel buffer is a record [width, height, px] where px maps each       *)
(* coordinate <<x, y>> (0 <= x < width, 0 <= y < height) to an RGBA tuple. *)
(***************************************************************************)
EXTENDS Integers, Sequences, FiniteSets

VARIABLES
    \* ---- removal (libs/removal.py) ----
    image,        \* the decoded input buffer, as handed to both algorithms
    seeds,        \* the seed list
    threshold,    \* the colour threshold
    eight_way,    \* the connectivity flag
    seed_colors,  \* floodfill_remove's set of sampled seed colours
    ff,           \* floodfill_remove's locals: pixels, visited, queue, removed
    gp,           \* global_purge's result on an identical copy of image
    pc,           \* position of the removal run
    \* ---- edge trimming (libs/common.py, trim_transparent) ----
    trim_in,      \* the buffer handed to trim_transparent
    trim_out,     \* what it returned: [image, bbox]
    \* ---- seed resolution (libs/common.py, parse_seed and get_corner_seeds) ----
    seed_parts,   \* the comma-separated parts the seed string is made of
    seed_str,     \* the seed string, a sequence of characters
    dims,         \* <<width, height>> of the image the seed is resolved against
    parse_out,    \* parse_seed's outcome: a coordinate or the error raised
    corner_out,   \* get_corner_seeds' result
    \* ---- command line (floodfill_bg.py, main) ----
    cli_in,       \* the parsed options and the opened image
    cli_out       \* how the run ended

rvars == <<image, seeds, threshold, eight_way, seed_colors, ff, gp, pc>>
tvars == <<trim_in, trim_out>>
pvars == <<seed_parts, seed_str, dims, parse_out, corner_out>>
cvars == <<cli_in, cli_out>>
vars == <<rvars, tvars, pvars, cvars>>

(***************************************************************************)
(* Bounds of the model.                                                    *)
(***************************************************************************)
MaxArea == 4      \* removal runs on every width x height with width*height <= MaxArea
MaxSeeds == 2     \* seed lists of length 0..MaxSeeds, duplicates allowed
TrimMaxArea == 6  \* trimming runs on every width x height with width*height <= TrimMaxArea
MaxParts == 3     \* seed strings of 1..MaxParts comma-separated parts

(***************************************************************************)
(* Generic helpers.                                                        *)
(***************************************************************************)
Coords(w, h) == (0 .. w - 1) \X (0 .. h - 1)

Dims(area) == {d \in (1 .. area) \X (1 .. area) : d[1] * d[2] <= area}

Buffers(area, colors) ==
    UNION {{[width |-> d[1], height |-> d[2], px |-> f] :
                f \in [Coords(d[1], d[2]) -> colors]} : d \in Dims(area)}

SeqsUpTo(S, n) == UNION {[1 .. k -> S] : k \in 0 .. n}

Range(s) == {s[i] : i \in DOMAIN s}

Transparent == <<0, 0, 0, 0>>

\* Python's None
None == <<>>

(***************************************************************************)
(* libs/common.py: color_distance.  The code returns the float             *)
(* ((r1-r2)^2 + (g1-g2)^2 + (b1-b2)^2) ** 0.5 of the first three channels  *)
(* and callers compare it with `<= threshold`.  The radicand is an integer *)
(* below 2^18, whose IEEE square root is exact on perfect squares and      *)
(* strictly above floor(sqrt) otherwise, so for an integer threshold t the *)
(* comparison is t >= 0 and radicand <= t*t.  The model keeps the radicand.*)
(***************************************************************************)
color_distance2(color1, color2) ==
    (color1[1] - color2[1]) * (color1[1] - color2[1])
  + (color1[2] - color2[2]) * (color1[2] - color2[2])
  + (color1[3] - color2[3]) * (color1[3] - color2[3])

within_strict(sc, current_color, t) ==
    t >= 0 /\ color_distance2(sc, current_color) < t * t

\* color_distance(sc, current_color) <= threshold
within(sc, current_color, t) ==
    t >= 0 /\ color_distance2(sc, current_color) <= t * t

\* any(color_distance(sc, current_color) <= threshold for sc in seed_colors)
any_within(colors, current_color, t) ==
    \E sc \in colors : within(sc, current_color, t)

(***************************************************************************)
(* libs/removal.py: floodfill_remove.                                      *)
(***************************************************************************)
\* neighbors, in the order of lines 48-50
neighbors(e) ==
    <<<<0, -1>>, <<-1, 0>>, <<1, 0>>, <<0, 1>>>>
    \o (IF e THEN <<<<-1, -1>>, <<1, -1>>, <<-1, 1>>, <<1, 1>>>> ELSE <<>>)

in_bounds(n, w, h) == 0 <= n[1] /\ n[1] < w /\ 0 <= n[2] /\ n[2] < h

\* lines 74-77: the in-bounds neighbours of p, in offset order
expand(p, w, h, e) ==
    LET offs == neighbors(e)
        cand == [i \in DOMAIN offs |-> <<p[1] + offs[i][1], p[2] + offs[i][2]>>]
    IN  SelectSeq(cand, LAMBDA n : in_bounds(n, w, h))

\* lines 44-58: the locals before the loop.  tests and writes count, per
\* pixel, the executions of the colour test (lines 67-68) and of the
\* overwrite (line 71).
ff_start(img, sds) ==
    [pixels  |-> img.px,
     visited |-> [p \in Coords(img.width, img.height) |-> FALSE],
     queue   |-> sds,
     removed |-> 0,
     tests   |-> [p \in Coords(img.width, img.height) |-> 0],
     writes  |-> [p \in Coords(img.width, img.height) |-> 0]]

\* line 55
ff_seed_colors(img, sds) == {img.px[sds[i]] : i \in DOMAIN sds}

loop_body_no_guard(st, w, h, colors, t, e) ==
    LET p == Head(st.queue)
        rest == Tail(st.queue)
        seen == [st EXCEPT !.queue = rest, !.visited[p] = TRUE,
                           !.tests[p] = @ + 1]
    IN  IF ~ any_within(colors, st.pixels[p], t) THEN seen
        ELSE [seen EXCEPT !.pixels[p] = Transparent,
                          !.removed = @ + 1,
                          !.writes[p] = @ + 1,
                          !.queue = rest \o expand(p, w, h, e)]

loop_body_no_mark(st, w, h, colors, t, e) ==
    LET p == Head(st.queue)
        rest == Tail(st.queue)
        seen == [st EXCEPT !.queue = rest, !.tests[p] = @ + 1]
    IN  IF st.visited[p] THEN [st EXCEPT !.queue = rest]
        ELSE IF ~ any_within(colors, st.pixels[p], t) THEN seen
        ELSE [seen EXCEPT !.pixels[p] = Transparent,
                          !.removed = @ + 1,
                          !.writes[p] = @ + 1,
                          !.queue = rest \o expand(p, w, h, e)]

loop_body_spread(st, w, h, colors, t, e) ==
    LET p == Head(st.queue)
        rest == Tail(st.queue)
        seen == [st EXCEPT !.queue = rest, !.visited[p] = TRUE,
                           !.tests[p] = @ + 1]
    IN  IF st.visited[p] THEN [st EXCEPT !.queue = rest]
        ELSE IF ~ any_within(colors, st.pixels[p], t)
        THEN [seen EXCEPT !.queue = rest \o expand(p, w, h, e)]
        ELSE [seen EXCEPT !.pixels[p] = Transparent,
                          !.removed = @ + 1,
                          !.writes[p] = @ + 1,
                          !.queue = rest \o expand(p, w, h, e)]

\* lines 61-77: one iteration of `while queue`
loop_body(st, w, h, colors, t, e) ==
    LET p == Head(st.queue)
        rest == Tail(st.queue)
        seen == [st EXCEPT !.queue = rest, !.visited[p] = TRUE,
                           !.tests[p] = @ + 1]
    IN  IF st.visited[p] THEN [st EXCEPT !.queue = rest]
        ELSE IF ~ any_within(colors, st.pixels[p], t) THEN seen
        ELSE [seen EXCEPT !.pixels[p] = Transparent,
                          !.removed = @ + 1,
                          !.writes[p] = @ + 1,
                          !.queue = rest \o expand(p, w, h, e)]

(***************************************************************************)
(* libs/removal.py: global_purge, the whole call.                          *)
(***************************************************************************)
\* line 110: the seed colours, sampled from the buffer px
gp_seed_colors(px, sds) == [i \in DOMAIN sds |-> px[sds[i]]]

raster_short(w, h) == [k \in 1 .. w * h - 1 |-> <<(k - 1) % w, (k - 1) \div w>>]

\* lines 114-115: raster order, rows top to bottom, each left to right
raster(w, h) == [k \in 1 .. w * h |-> <<(k - 1) % w, (k - 1) \div w>>]

RECURSIVE gp_scan_resample(_, _, _, _, _)
gp_scan_resample(st, order, k, sds, t) ==
    IF k > Len(order) THEN st
    ELSE LET p == order[k]
         IN  IF any_within(Range(gp_seed_colors(st.pixels, sds)), st.pixels[p], t)
             THEN gp_scan_resample([pixels  |-> [st.pixels EXCEPT ![p] = Transparent],
                                    removed |-> st.removed + 1,
                                    writes  |-> [st.writes EXCEPT ![p] = @ + 1]],
                                   order, k + 1, sds, t)
             ELSE gp_scan_resample(st, order, k + 1, sds, t)

\* lines 114-119 from the k-th pixel of the scan on; writes counts, per pixel,
\* the executions of the overwrite (line 118)
RECURSIVE gp_scan(_, _, _, _, _)
gp_scan(st, order, k, colors, t) ==
    IF k > Len(order) THEN st
    ELSE LET p == order[k]
         IN  IF any_within(Range(colors), st.pixels[p], t)
             THEN gp_scan([pixels  |-> [st.pixels EXCEPT ![p] = Transparent],
                           removed |-> st.removed + 1,
                           writes  |-> [st.writes EXCEPT ![p] = @ + 1]],
                          order, k + 1, colors, t)
             ELSE gp_scan(st, order, k + 1, colors, t)

\* lines 107-112: the locals before the scan
gp_start(img) ==
    [pixels  |-> img.px,
     removed |-> 0,
     writes  |-> [p \in Coords(img.width, img.height) |-> 0]]

global_purge_resample(img, sds, t) ==
    gp_scan_resample(gp_start(img), raster(img.width, img.height), 1, sds, t)

\* lines 107-121
global_purge(img, sds, t) ==
    gp_scan(gp_start(img), raster(img.width, img.height), 1,
            gp_seed_colors(img.px, sds), t)

(***************************************************************************)
(* The removal run: floodfill_remove step by step on the buffer, then      *)
(* global_purge on an identical copy of the same input.                    *)
(***************************************************************************)
Palette == {<<0, 0, 0, 255>>, <<0, 0, 0, 0>>, <<3, 4, 0, 255>>}
Thresholds == {4, 5}

NoFf == [pixels |-> <<>>, visited |-> <<>>, queue |-> <<>>, removed |-> 0,
         tests |-> <<>>, writes |-> <<>>]
NoGp == [pixels |-> <<>>, removed |-> 0, writes |-> <<>>]

NoBuffer == [width |-> 0, height |-> 0, px |-> <<>>]
NoTrim == [image |-> NoBuffer, bbox |-> <<>>]

\* the variables of the parts a specification does not run
IdleRemoval ==
    /\ image = NoBuffer /\ seeds = <<>> /\ threshold = 0 /\ eight_way = FALSE
    /\ seed_colors = {} /\ ff = NoFf /\ gp = NoGp /\ pc = "idle"
IdleTrim == trim_in = NoBuffer /\ trim_out = NoTrim
IdleCli == cli_in = None /\ cli_out = None
IdleParse == seed_parts = <<>> /\ seed_str = <<>> /\ dims = <<0, 0>> /\ parse_out = None /\ corner_out = None

Init ==
    /\ IdleTrim /\ IdleParse /\ IdleCli
    /\ image \in Buffers(MaxArea, Palette)
    /\ seeds \in SeqsUpTo(Coords(image.width, image.height), MaxSeeds)
    /\ threshold \in Thresholds
    \* on a buffer one pixel wide or high no diagonal neighbour is in bounds
    \* and the 8-way run is the 4-way run
    /\ eight_way \in (IF image.width > 1 /\ image.height > 1 THEN BOOLEAN ELSE {FALSE})
    /\ seed_colors = {}
    /\ ff = NoFf
    /\ gp = NoGp
    /\ pc = "call"

\* floodfill_remove lines 44-58
FfStart ==
    /\ pc = "call"
    /\ seed_colors' = ff_seed_colors(image, seeds)
    /\ ff' = ff_start(image, seeds)
    /\ pc' = "loop"
    /\ UNCHANGED <<image, seeds, threshold, eight_way, gp, tvars, pvars, cvars>>

\* floodfill_remove lines 60-77, one iteration
FfIterate ==
    /\ pc = "loop"
    /\ ff.queue # <<>>
    /\ ff' = loop_body(ff, image.width, image.height, seed_colors, threshold, eight_way)
    /\ UNCHANGED <<image, seeds, threshold, eight_way, seed_colors, gp, pc, tvars, pvars, cvars>>

\* floodfill_remove line 60 (queue empty) and line 79
FfReturn ==
    /\ pc = "loop"
    /\ ff.queue = <<>>
    /\ pc' = "returned"
    /\ UNCHANGED <<image, seeds, threshold, eight_way, seed_colors, ff, gp, tvars, pvars, cvars>>

\* global_purge on an identical copy of the input
GlobalPurge ==
    /\ pc = "returned"
    /\ gp' = global_purge(image, seeds, threshold)
    /\ pc' = "done"
    /\ UNCHANGED <<image, seeds, threshold, eight_way, seed_colors, ff, tvars, pvars, cvars>>

Next == FfStart \/ FfIterate \/ FfReturn \/ GlobalPurge

Spec == Init /\ [][Next]_vars

\* The loop is sequential code with no suspension point: every enabled step runs.
FairSpec == Spec /\ WF_vars(Next)


(***************************************************************************)
(* libs/common.py: trim_transparent.  Image.getbbox and Image.crop are     *)
(* Pillow's; they are modelled by their documented behaviour on an RGBA    *)
(* image: getbbox is the bounding box of the pixels with nonzero alpha     *)
(* (alpha_only defaults to true), None when there is none, and crop(box)   *)
(* is the (right-left) x (bottom-top) image of the pixels in the box.      *)
(***************************************************************************)
SetMin(S) == CHOOSE m \in S : \A n \in S : m <= n
SetMax(S) == CHOOSE m \in S : \A n \in S : m >= n

\* the box (left, upper, right, lower) around the coordinates in S
box_of(S) ==
    IF S = {} THEN None
    ELSE <<SetMin({p[1] : p \in S}), SetMin({p[2] : p \in S}),
           SetMax({p[1] : p \in S}) + 1, SetMax({p[2] : p \in S}) + 1>>

\* image.getbbox() with the image taken as pixels that are nonzero in any channel
getbbox_any_channel(img) ==
    box_of({p \in Coords(img.width, img.height) : img.px[p] # Transparent})

\* line 109: image.getbbox()
getbbox(img) ==
    box_of({p \in Coords(img.width, img.height) : img.px[p][4] # 0})

\* line 114: image.crop(bbox)
crop(img, bbox) ==
    [width  |-> bbox[3] - bbox[1],
     height |-> bbox[4] - bbox[2],
     px     |-> [p \in Coords(bbox[3] - bbox[1], bbox[4] - bbox[2]) |->
                    img.px[<<bbox[1] + p[1], bbox[2] + p[2]>>]]]

trim_transparent_any_channel(img) ==
    LET bbox == getbbox_any_channel(img)
    IN  IF bbox = None
        THEN [image |-> img, bbox |-> <<0, 0, img.width, img.height>>]
        ELSE [image |-> crop(img, bbox), bbox |-> bbox]

\* lines 109-115
trim_transparent(img) ==
    LET bbox == getbbox(img)
    IN  IF bbox = None
        THEN [image |-> img, bbox |-> <<0, 0, img.width, img.height>>]
        ELSE [image |-> crop(img, bbox), bbox |-> bbox]

(***************************************************************************)
(* The trimming run: one call of trim_transparent on any buffer.           *)
(***************************************************************************)
TrimPalette == {<<0, 0, 0, 0>>, <<9, 9, 9, 0>>, <<1, 2, 3, 255>>, <<3, 4, 0, 7>>}

InitTrim ==
    /\ IdleRemoval /\ IdleParse /\ IdleCli
    /\ trim_in \in Buffers(TrimMaxArea, TrimPalette)
    /\ trim_out = NoTrim

Trim ==
    /\ trim_in # NoBuffer
    /\ trim_out = NoTrim
    /\ trim_out' = trim_transparent(trim_in)
    /\ UNCHANGED <<trim_in, rvars, pvars, cvars>>

NextTrim == Trim

SpecTrim == InitTrim /\ [][NextTrim]_vars

(***************************************************************************)
(* Python floats.  parse_seed works on floats: float(s), pct / 100,        *)
(* (pct / 100) * (max_val - 1), the range comparisons and int().  A float  *)
(* is modelled as an IEEE-754 double: a zero, an infinity, a NaN, or a     *)
(* finite number with a 53-bit mantissa m (most significant bit first,     *)
(* m[1] = 1) and the exponent e of m[1], of value                          *)
(* (m[1] + m[2]/2 + ... + m[53]/2^52) * 2^e with -1074 <= e <= 1023; below *)
(* e = -1022 the number is subnormal and only the bits down to 2^-1074 can *)
(* be set.  Every operation rounds to nearest, ties to even, as the        *)
(* hardware does.  neg is the sign bit.                                    *)
(***************************************************************************)
MantissaBits == 53

DZero(neg) ==
    [zero |-> TRUE, inf |-> FALSE, nan |-> FALSE, neg |-> neg, e |-> 0, m |-> <<>>]
DInf(neg) ==
    [zero |-> FALSE, inf |-> TRUE, nan |-> FALSE, neg |-> neg, e |-> 0, m |-> <<>>]
DNaN ==
    [zero |-> FALSE, inf |-> FALSE, nan |-> TRUE, neg |-> FALSE, e |-> 0, m |-> <<>>]
DFinite(m, e, neg) ==
    [zero |-> FALSE, inf |-> FALSE, nan |-> FALSE, neg |-> neg, e |-> e, m |-> m]

\* bits, cut or padded with zeros on the right to n bits
pad(bits, n) == [i \in 1 .. n |-> IF i <= Len(bits) THEN bits[i] ELSE 0]

\* the bytes of a bit sequence whose length is a multiple of 8, and back
to_bytes(bits) ==
    [j \in 1 .. Len(bits) \div 8 |->
        LET o == 8 * (j - 1)
        IN  128 * bits[o + 1] + 64 * bits[o + 2] + 32 * bits[o + 3]
            + 16 * bits[o + 4] + 8 * bits[o + 5] + 4 * bits[o + 6]
            + 2 * bits[o + 7] + bits[o + 8]]

from_bytes(bytes) ==
    [i \in 1 .. 8 * Len(bytes) |->
        (bytes[(i - 1) \div 8 + 1] \div 2 ^ (7 - ((i - 1) % 8))) % 2]

\* m + 1 on a bit sequence; c is the carry out of the first bit
inc_bits(m) ==
    LET zeros == {i \in DOMAIN m : m[i] = 0}
        z == CHOOSE i \in zeros : \A j \in zeros : j <= i
    IN  IF zeros = {} THEN [m |-> [i \in DOMAIN m |-> 0], c |-> 1]
        ELSE [m |-> [i \in DOMAIN m |-> IF i < z THEN m[i]
                                        ELSE IF i = z THEN 1 ELSE 0],
              c |-> 0]

\* the double with the mantissa bits m at exponent e: an infinity above the
\* largest exponent
d_finite(m, e, neg) ==
    IF e > 1023 THEN DInf(neg) ELSE DFinite(pad(m, MantissaBits), e, neg)

\* round the exact value bits * 2^e (bits[1] = 1 of weight 2^e; plus a nonzero
\* tail when sticky) to a double.  p is the number of bits a double keeps at
\* this exponent: 53, fewer for a subnormal, none below 2^-1074.
round_bits(bits, e, sticky, neg) ==
    LET p == IF e >= -1022 THEN MantissaBits ELSE e + 1075
        m == pad(bits, IF p > 0 THEN p ELSE 0)
        rest == IF p >= 0 THEN SubSeq(bits, p + 1, Len(bits)) ELSE <<>>
        half == rest # <<>> /\ rest[1] = 1
        more == sticky \/ \E i \in 2 .. Len(rest) : rest[i] = 1
        up == half /\ (more \/ (p > 0 /\ m[p] = 1))
        r == inc_bits(m)
    IN  IF p < 0 THEN DZero(neg)
        ELSE IF ~ up THEN (IF p = 0 THEN DZero(neg) ELSE d_finite(m, e, neg))
        ELSE IF r.c = 1 THEN d_finite(<<1>>, e + 1, neg)
        ELSE d_finite(r.m, e, neg)

\* the double nearest to the value of the bit sequence qbits, whose first
\* bit has weight 2^e, plus a nonzero tail below the last bit when sticky
d_from_bits(qbits, e, sticky, neg) ==
    LET ones == {i \in DOMAIN qbits : qbits[i] = 1}
        lead == CHOOSE i \in ones : \A j \in ones : i <= j
    IN  IF ones = {} THEN DZero(neg)
        ELSE round_bits(SubSeq(qbits, lead, Len(qbits)), e - (lead - 1), sticky, neg)

\* the double nearest to the quotient r = [q, rem] of a long division, the
\* first bit of q having weight 2^e
d_from_quotient(r, e, neg) == d_from_bits(from_bytes(r.q), e, r.rem # 0, neg)

RECURSIVE div_bytes(_, _, _, _, _)
\* long division of the bytes lo..hi by k (0 < k < 2^23), with rem carried in
\* from the left: quotient bytes and the final remainder.  The left half is
\* divided first and its remainder carried into the right half.
div_bytes(bytes, lo, hi, rem, k) ==
    IF lo > hi THEN [q |-> <<>>, rem |-> rem]
    ELSE IF lo = hi
    THEN LET v == 256 * rem + bytes[lo]
         IN  [q |-> <<v \div k>>, rem |-> v % k]
    ELSE LET mid == (lo + hi) \div 2
             l == div_bytes(bytes, lo, mid, rem, k)
             r == div_bytes(bytes, mid + 1, hi, l.rem, k)
         IN  [q |-> l.q \o r.q, rem |-> r.rem]

\* d / k for an integer 0 < k < 2^16, correctly rounded: the quotient of the
\* mantissa extended to 72 bits keeps at least 56 bits, and the remainder
\* says whether anything lies below them
d_div(d, k) ==
    IF d.zero \/ d.inf \/ d.nan THEN d
    ELSE d_from_quotient(div_bytes(to_bytes(pad(d.m, 72)), 1, 9, 0, k), d.e, d.neg)

RECURSIVE mul_bytes(_, _, _, _, _)
\* the bytes lo..hi times n, plus c carried in from the right (0 <= n < 2^23,
\* 0 <= c < 2^23): the product's bytes and the carry out of byte lo.  The
\* right half is multiplied first (the test of its carry, which is never
\* negative, makes TLC evaluate it first) and its carry passed to the left.
mul_bytes(bytes, lo, hi, n, c) ==
    IF lo > hi THEN [b |-> <<>>, carry |-> c]
    ELSE IF lo = hi
    THEN LET v == bytes[lo] * n + c
         IN  [b |-> <<v % 256>>, carry |-> v \div 256]
    ELSE LET mid == (lo + hi) \div 2
             r == mul_bytes(bytes, mid + 1, hi, n, c)
             l == mul_bytes(bytes, lo, mid, n, r.carry)
         IN  IF r.carry >= 0 THEN [b |-> l.b \o r.b, carry |-> l.carry]
             ELSE r

\* the product r = [b, carry] of mul_bytes as one byte sequence
product_bytes(r) ==
    <<r.carry \div 65536, (r.carry \div 256) % 256, r.carry % 256>> \o r.b

\* d * n for an integer 0 <= n < 2^23, correctly rounded (the product is exact
\* before rounding); inf * 0 is a NaN
d_mul(d, n) ==
    IF d.nan \/ (d.inf /\ n = 0) THEN DNaN
    ELSE IF d.inf THEN d
    ELSE IF d.zero \/ n = 0 THEN DZero(d.neg)
    ELSE d_from_bits(from_bytes(product_bytes(mul_bytes(to_bytes(pad(d.m, 56)), 1, 7, n, 0))),
                     d.e + 24, FALSE, d.neg)

\* floor(|d|), for a finite |d| < 2^31
d_floor_abs(d) ==
    IF d.zero \/ d.e < 0 THEN 0
    ELSE LET k == d.e + 1
             bytes == to_bytes([i \in 1 .. 32 |->
                                  IF i <= 32 - k THEN 0 ELSE d.m[i - (32 - k)]])
         IN  ((bytes[1] * 256 + bytes[2]) * 256 + bytes[3]) * 256 + bytes[4]

\* d is a whole number (d finite)
d_is_int(d) == d.zero \/ (d.e >= 0 /\ \A i \in d.e + 2 .. MantissaBits : d.m[i] = 0)

\* 0 <= d, d < k and d <= k for an integer 0 <= k < 2^31; every comparison
\* with a NaN is false, and a d of 2^31 or more is above every such k
d_ge_zero(d) == ~ d.nan /\ (d.zero \/ ~ d.neg)
d_lt(d, k) ==
    /\ ~ d.nan
    /\ IF d.inf THEN d.neg
       ELSE (~ d.zero /\ d.neg) \/ (d.e < 31 /\ d_floor_abs(d) < k)
d_le(d, k) ==
    d_lt(d, k) \/ (~ d.nan /\ ~ d.inf /\ d.e < 31 /\ d_floor_abs(d) = k /\ d_is_int(d))

\* int(d): truncation toward zero, for a finite |d| < 2^31
py_int(d) == IF d.neg THEN - d_floor_abs(d) ELSE d_floor_abs(d)

(***************************************************************************)
(* Python strings are sequences of code points: "1,5%" is                  *)
(* <<49, 44, 53, 37>>, and a character may be any code point.  ord gives   *)
(* the code point of a printable ASCII character (Ascii lists them in      *)
(* order, all but the double quote after "!", the backslash after "[" and  *)
(* the backquote after "_"), str the string that a sequence of them        *)
(* writes.                                                                 *)
(***************************************************************************)
Ascii ==
    <<" ", "!", "#", "$", "%", "&", "'", "(", ")", "*", "+", ",",
      "-", ".", "/", "0", "1", "2", "3", "4", "5", "6", "7", "8", "9", ":",
      ";", "<", "=", ">", "?", "@", "A", "B", "C", "D", "E", "F", "G", "H",
      "I", "J", "K", "L", "M", "N", "O", "P", "Q", "R", "S", "T", "U", "V",
      "W", "X", "Y", "Z", "[", "]", "^", "_", "a", "b", "c",
      "d", "e", "f", "g", "h", "i", "j", "k", "l", "m", "n", "o", "p", "q",
      "r", "s", "t", "u", "v", "w", "x", "y", "z", "{", "|", "}", "~">>

ord == [c \in {Ascii[i] : i \in DOMAIN Ascii} |->
           LET i == CHOOSE k \in DOMAIN Ascii : Ascii[k] = c
           IN  i + (IF i <= 2 THEN 31 ELSE IF i <= 59 THEN 32
                    ELSE IF i <= 62 THEN 33 ELSE 34)]

str(s) == [i \in DOMAIN s |-> ord[s[i]]]

\* the characters str.strip() removes (str.isspace): the ASCII whitespace, the
\* separators \x1c-\x1f, and the other Unicode spaces
Whitespace ==
    (9 .. 13) \cup (28 .. 32) \cup {133, 160, 5760} \cup (8192 .. 8202)
        \cup {8232, 8233, 8239, 8287, 12288}

\* the characters float() skips around an ASCII number: space, \t, \n, \x0b,
\* \x0c and \r
AsciiSpace == (9 .. 13) \cup {32}

\* the code points of the zero of every Unicode decimal digit block (Unicode
\* 14.0); the digits 1 to 9 follow each zero
DigitZeros ==
    {48, 1632, 1776, 1984, 2406, 2534, 2662, 2790, 2918, 3046, 3174, 3302,
     3430, 3558, 3664, 3792, 3872, 4160, 4240, 6112, 6160, 6470, 6608,
     6784, 6800, 6992, 7088, 7232, 7248, 42528, 43216, 43264, 43472, 43504,
     43600, 44016, 65296, 66720, 68912, 69734, 69872, 69942, 70096, 70384,
     70736, 70864, 71248, 71360, 71472, 71904, 72016, 72784, 73040, 73120,
     92768, 92864, 93008, 120782, 120792, 120802, 120812, 120822, 123200,
     123632, 125264, 130032}

\* the decimal digit value of the character c, -1 if it is not a decimal digit
py_decimal(c) ==
    IF \E z \in DigitZeros : z <= c /\ c <= z + 9
    THEN c - (CHOOSE z \in DigitZeros : z <= c /\ c <= z + 9)
    ELSE -1

\* float() reads s as ASCII: a character below 127 stays, any other Unicode
\* space becomes a space, any other decimal digit the ASCII digit of its
\* value, and anything else a "?", which no number contains
to_ascii(s) ==
    [i \in DOMAIN s |->
        IF s[i] < 127 THEN s[i]
        ELSE IF s[i] \in Whitespace THEN ord[" "]
        ELSE IF py_decimal(s[i]) >= 0 THEN ord["0"] + py_decimal(s[i])
        ELSE ord["?"]]

\* the ASCII digits
Digits == ord["0"] .. ord["9"]

DigitVal(c) == c - ord["0"]

\* c in lower case, for an ASCII letter
py_lower(c) == IF ord["A"] <= c /\ c <= ord["Z"] THEN c + 32 ELSE c

\* s.split(sep): the pieces between the occurrences of sep
py_split(s, sep) ==
    LET at == {i \in DOMAIN s : s[i] = sep}
        \* the position of the j-th separator; 0 and Len(s) + 1 stand at the ends
        pos(j) == IF j = 0 THEN 0
                  ELSE IF j > Cardinality(at) THEN Len(s) + 1
                  ELSE CHOOSE i \in at : Cardinality({x \in at : x < i}) = j - 1
    IN  [j \in 1 .. Cardinality(at) + 1 |-> SubSeq(s, pos(j - 1) + 1, pos(j) - 1)]

\* s without its leading and trailing characters of the set ws
strip(s, ws) ==
    LET solid == {i \in DOMAIN s : s[i] \notin ws}
        first == CHOOSE i \in solid : \A j \in solid : i <= j
        last == CHOOSE i \in solid : \A j \in solid : j <= i
    IN  IF solid = {} THEN <<>> ELSE SubSeq(s, first, last)

\* s.strip()
py_strip(s) == strip(s, Whitespace)

\* s.endswith("%")
ends_with_pct(s) == s # <<>> /\ s[Len(s)] = ord["%"]

RECURSIVE digits_value(_)
\* the integer that at most 8 decimal digits write
digits_value(s) ==
    IF s = <<>> THEN 0
    ELSE 10 * digits_value(SubSeq(s, 1, Len(s) - 1)) + DigitVal(s[Len(s)])

RECURSIVE Pow10(_)
\* 10^k, for 0 <= k <= 6
Pow10(k) == IF k = 0 THEN 1 ELSE 10 * Pow10(k - 1)

\* s without the characters of the set cs
without(s, cs) == SelectSeq(s, LAMBDA c : c \notin cs)

\* s without its leading zeros
strip_zeros(s) ==
    LET solid == {i \in DOMAIN s : s[i] # ord["0"]}
        first == CHOOSE i \in solid : \A j \in solid : i <= j
    IN  IF solid = {} THEN <<>> ELSE SubSeq(s, first, Len(s))

RECURSIVE dec_bytes(_, _, _, _)
\* the bytes, most significant first, of the integer that the bytes acc
\* followed by the decimal digits ds[lo..hi] write: acc * 10^n plus the
\* digits' value, at most six digits at a time, the left half of a longer
\* range before its right half (the test of its length makes TLC evaluate
\* the left half first)
dec_bytes(acc, ds, lo, hi) ==
    IF lo > hi THEN acc
    ELSE IF hi - lo < 6
    THEN product_bytes(mul_bytes(acc, 1, Len(acc), Pow10(hi - lo + 1),
                                 digits_value(SubSeq(ds, lo, hi))))
    ELSE LET left == dec_bytes(acc, ds, lo, (lo + hi) \div 2)
         IN  IF Len(left) >= 0 THEN dec_bytes(left, ds, (lo + hi) \div 2 + 1, hi)
             ELSE left

RECURSIVE mul10_bytes(_, _)
\* bytes * 10^k, multiplying by at most 10^6 at a time
mul10_bytes(bytes, k) ==
    IF k = 0 THEN bytes
    ELSE IF k <= 6 THEN product_bytes(mul_bytes(bytes, 1, Len(bytes), Pow10(k), 0))
    ELSE LET half == mul10_bytes(bytes, k \div 2)
         IN  IF Len(half) >= 0 THEN mul10_bytes(half, k - k \div 2) ELSE half

RECURSIVE div10_bytes(_, _)
\* r = [q, rem] with q divided by 10^k, by at most 10^6 at a time; rem is
\* nonzero when r.rem is or when a division cut anything off
div10_bytes(r, k) ==
    IF k = 0 THEN r
    ELSE IF k <= 6
    THEN LET d == div_bytes(r.q, 1, Len(r.q), 0, Pow10(k))
         IN  IF r.rem # 0 THEN [q |-> d.q, rem |-> 1] ELSE d
    ELSE LET half == div10_bytes(r, k \div 2)
         IN  IF half.rem < 0 THEN half ELSE div10_bytes(half, k - k \div 2)

\* the double nearest to the integer the bytes write
d_from_integer(bytes, neg) ==
    d_from_bits(from_bytes(bytes), 8 * Len(bytes) - 1, FALSE, neg)

\* the double nearest (ties to even) to n * 10^x, for the bytes n of a
\* positive integer.  For x < 0, n is shifted left by whole bytes, at least
\* 56 bits more than 10^-x has, and divided by 10^-x exactly, which leaves at
\* least 56 quotient bits in front of the rounding position; the remainder
\* tells whether the quotient is inexact.
d_scale10(n, x, neg) ==
    IF x >= 0 THEN d_from_integer(mul10_bytes(n, x), neg)
    ELSE d_from_quotient(
             div10_bytes([q |-> n \o [i \in 1 .. 7 + (1 - x) \div 2 |-> 0], rem |-> 0], - x),
             8 * Len(n) - 1, neg)

\* the double nearest to the decimal ds * 10^x, ds being decimal digits with
\* no leading zero.  A number of 10^309 or more is above every double and
\* gives an infinity; one below 10^-324 is below half the smallest double
\* and gives a zero.
d_from_decimal(ds, x, neg) ==
    IF ds = <<>> THEN DZero(neg)
    ELSE IF Len(ds) + x >= 310 THEN DInf(neg)
    ELSE IF Len(ds) + x <= -324 THEN DZero(neg)
    ELSE d_scale10(dec_bytes(<<>>, ds, 1, Len(ds)), x, neg)

\* p is a digitpart of the float grammar: digits, with single underscores
\* between digits only
is_digitpart(p) ==
    /\ p # <<>>
    /\ \A i \in DOMAIN p : p[i] \in Digits \cup {ord["_"]}
    /\ p[1] # ord["_"] /\ p[Len(p)] # ord["_"]
    /\ \A i \in 1 .. Len(p) - 1 : ~ (p[i] = ord["_"] /\ p[i + 1] = ord["_"])

\* the exponent written after the "e": an optional sign and a digitpart.  An
\* exponent of more than 8 digits is beyond every double's either way and
\* counts as 10^8.
float_exponent(x) ==
    LET signed == x # <<>> /\ x[1] \in {ord["-"], ord["+"]}
        p == IF signed THEN Tail(x) ELSE x
        sig == strip_zeros(without(p, {ord["_"]}))
        v == IF Len(sig) > 8 THEN 100000000 ELSE digits_value(sig)
    IN  IF ~ is_digitpart(p) THEN [ok |-> FALSE, val |-> 0]
        ELSE [ok |-> TRUE, val |-> IF x[1] = ord["-"] THEN - v ELSE v]

\* the decimal with the digitparts whole before the point and frac after it
\* (one of them may be missing, not both) and the exponent ex
float_decimal(whole, frac, ex, neg) ==
    IF \/ ~ ex.ok
       \/ ~ (whole = <<>> \/ is_digitpart(whole))
       \/ ~ (frac = <<>> \/ is_digitpart(frac))
       \/ (whole = <<>> /\ frac = <<>>)
    THEN [ok |-> FALSE, val |-> DZero(FALSE)]
    ELSE [ok |-> TRUE,
          val |-> d_from_decimal(strip_zeros(without(whole \o frac, {ord["_"]})),
                                 ex.val - Len(without(frac, {ord["_"]})), neg)]

\* the number body (lower case, sign removed): "inf", "infinity", "nan", or
\* a decimal cut at its first "e" and its first "."
float_number(body, neg) ==
    LET es == {i \in DOMAIN body : body[i] = ord["e"]}
        cut == IF es = {} THEN Len(body) + 1
               ELSE CHOOSE i \in es : \A j \in es : i <= j
        points == {i \in 1 .. cut - 1 : body[i] = ord["."]}
        pt == IF points = {} THEN cut
              ELSE CHOOSE i \in points : \A j \in points : i <= j
    IN  IF body \in {str(<<"i", "n", "f">>),
                     str(<<"i", "n", "f", "i", "n", "i", "t", "y">>)}
        THEN [ok |-> TRUE, val |-> DInf(neg)]
        ELSE IF body = str(<<"n", "a", "n">>) THEN [ok |-> TRUE, val |-> DNaN]
        ELSE float_decimal(SubSeq(body, 1, pt - 1), SubSeq(body, pt + 1, cut - 1),
                           IF es = {} THEN [ok |-> TRUE, val |-> 0]
                           ELSE float_exponent(SubSeq(body, cut + 1, Len(body))),
                           neg)

\* the ASCII text t of float(): surrounding whitespace is ignored and case
\* does not matter; then an optional sign and a number
float_ascii(t) ==
    LET signed == t # <<>> /\ t[1] \in {ord["-"], ord["+"]}
    IN  float_number(IF signed THEN Tail(t) ELSE t, t # <<>> /\ t[1] = ord["-"])

\* float(s).  The result is the double nearest to the number; ok is FALSE
\* where float raises ValueError.
py_float(s) ==
    float_ascii([i \in DOMAIN strip(to_ascii(s), AsciiSpace) |->
                    py_lower(strip(to_ascii(s), AsciiSpace)[i])])

(***************************************************************************)
(* libs/common.py: parse_seed and get_corner_seeds.                        *)
(***************************************************************************)
Raise(msg) == [ok |-> FALSE, error |-> msg, val |-> DZero(FALSE)]
Value(d) == [ok |-> TRUE, error |-> "", val |-> d]

abs_in_range_inclusive(val, max_val) == d_ge_zero(val) /\ d_le(val, max_val)

\* line 68: 0 <= val < max_val
abs_in_range(val, max_val) == d_ge_zero(val) /\ d_lt(val, max_val)

\* line 63: 0 <= pct <= 100
pct_in_range(pct) == d_ge_zero(pct) /\ d_le(pct, 100)

pct_to_coord_full(pct, max_val) == d_mul(d_div(pct, 100), max_val)

\* line 65: (pct / 100) * (max_val - 1)
pct_to_coord(pct, max_val) == d_mul(d_div(pct, 100), max_val - 1)

\* lines 62-65, pct being what _parse_number gave
parse_percentage(pct, max_val) ==
    IF ~ pct.ok THEN Raise("Invalid number")
    ELSE IF ~ pct_in_range(pct.val) THEN Raise("Percentage must be 0-100")
    ELSE Value(pct_to_coord(pct.val, max_val))

\* lines 67-70, val being what _parse_number gave
parse_absolute(val, max_val) ==
    IF ~ val.ok THEN Raise("Invalid number")
    ELSE IF ~ abs_in_range(val.val, max_val) THEN Raise("Coordinate out of range")
    ELSE Value(val.val)

\* lines 58-70: one pass of the loop, on parts[i] with max_val
parse_part(raw, max_val) ==
    LET part == py_strip(raw)
    IN  IF ends_with_pct(part)
        THEN parse_percentage(py_float(SubSeq(part, 1, Len(part) - 1)), max_val)
        ELSE parse_absolute(py_float(part), max_val)

Failed(msg) == [ok |-> FALSE, error |-> msg, coord |-> None]

\* lines 57-72: the loop's two passes x and y in order, and the return
parse_coords(x, y) ==
    IF ~ x.ok THEN Failed(x.error)
    ELSE IF ~ y.ok THEN Failed(y.error)
    ELSE [ok |-> TRUE, error |-> "", coord |-> <<py_int(x.val), py_int(y.val)>>]

\* lines 52-72, for 0 < width, height <= 2^23; a raised ValueError is the
\* outcome [ok = FALSE, error = its message]
parse_seed(s, width, height) ==
    LET parts == py_split(py_strip(s), ord[","])
    IN  IF Len(parts) # 2 THEN Failed("Seed must be x,y")
        ELSE parse_coords(parse_part(parts[1], width), parse_part(parts[2], height))

\* lines 85-90
get_corner_seeds(width, height) ==
    <<<<0, 0>>, <<width - 1, 0>>, <<0, height - 1>>, <<width - 1, height - 1>>>>

(***************************************************************************)
(* The resolver run: parse_seed on a seed string and get_corner_seeds, for *)
(* one image size.  Seed strings are 1..MaxParts parts joined by commas.   *)
(***************************************************************************)
Parts ==
    {str(<<"0">>), str(<<"2">>), str(<<"1", "_", "0">>), str(<<"1", ".", "5">>),
     str(<<"0", "%">>), str(<<"5", "0", "%">>),
     str(<<"1", "0", "0", "%">>), str(<<"1", "0", "1", "%">>),
     str(<<"2", "9", ".", "0", "0", "0", "0", "0", "0", "%">>),
     str(<<"a">>), <<>>, str(<<"%">>), str(<<"-", "1">>), str(<<"-", "0">>),
     str(<<"1", "E", "1">>), str(<<"n", "a", "n">>), str(<<"I", "n", "f", "%">>),
     \* the Arabic-Indic digit three; "2" between \x0b and \x1c
     <<1635>>, <<11, 50, 28>>,
     \* "50" and an ideographic space, "50" and \x1c, before the "%"
     <<53, 48, 12288, 37>>, <<53, 48, 28, 37>>}

Widths == {1, 3, 101}
Heights == {1, 3}

RECURSIVE Join(_)
\* ",".join(ps)
Join(ps) ==
    IF Len(ps) = 1 THEN ps[1] ELSE ps[1] \o <<ord[","]>> \o Join(Tail(ps))

InitParse ==
    /\ IdleRemoval /\ IdleTrim /\ IdleCli
    /\ \E k \in 1 .. MaxParts : seed_parts \in [1 .. k -> Parts]
    /\ seed_str = Join(seed_parts)
    /\ dims \in Widths \X Heights
    /\ parse_out = None
    /\ corner_out = None

ParseSeed ==
    /\ dims # <<0, 0>>
    /\ parse_out = None
    /\ parse_out' = parse_seed(seed_str, dims[1], dims[2])
    /\ UNCHANGED <<seed_parts, seed_str, dims, corner_out, rvars, tvars, cvars>>

CornerSeeds ==
    /\ dims # <<0, 0>>
    /\ corner_out = None
    /\ corner_out' = get_corner_seeds(dims[1], dims[2])
    /\ UNCHANGED <<seed_parts, seed_str, dims, parse_out, rvars, tvars, cvars>>

NextParse == ParseSeed \/ CornerSeeds

SpecParse == InitParse /\ [][NextParse]_vars

(***************************************************************************)
(* floodfill_bg.py: main, and libs/validation.py: validate_seeds.  A run   *)
(* ends in cli_out = [exit, stage, removed, result, bbox]: exit is "info", *)
(* "saved" or the exception that ended it, stage the step it ended in.     *)
(***************************************************************************)
DefaultThreshold == 50

RECURSIVE ff_loop(_, _, _, _, _, _)
\* removal.py lines 60-77: the loop, to its end
ff_loop(st, w, h, colors, t, e) ==
    IF st.queue = <<>> THEN st
    ELSE ff_loop(loop_body(st, w, h, colors, t, e), w, h, colors, t, e)

\* removal.py lines 44-79: the whole call
floodfill_remove(img, sds, t, e) ==
    ff_loop(ff_start(img, sds), img.width, img.height,
            ff_seed_colors(img, sds), t, e)

\* validation.py lines 73-74
validate_seeds(sds, auto_corners, trim) ==
    IF sds = <<>> /\ ~ auto_corners /\ ~ trim THEN "UsageError" ELSE "ok"

\* a call of validate_seeds with the positional arguments args: the function
\* has three required parameters, and Python raises TypeError on any other
\* number of arguments
call_validate_seeds(args) ==
    IF Len(args) # 3 THEN "TypeError"
    ELSE validate_seeds(args[1], args[2], args[3])

Ended(exit, stage) ==
    [exit |-> exit, stage |-> stage, removed |-> 0, result |-> NoBuffer, bbox |-> None]

\* floodfill_bg.py lines 157-171: removal, trimming and saving
remove_and_save(a, seed_points) ==
    LET w == a.image.width
        h == a.image.height
        st == IF a.global_mode
              THEN global_purge(a.image, seed_points, a.threshold)
              ELSE floodfill_remove(a.image, seed_points, a.threshold, a.eight_way)
        result == [width |-> w, height |-> h, px |-> st.pixels]
        trimmed == trim_transparent(result)
    IN  [exit    |-> "saved",
         stage   |-> "save",
         removed |-> st.removed,
         result  |-> IF a.trim THEN trimmed.image ELSE result,
         bbox    |-> IF a.trim THEN trimmed.bbox ELSE None]

\* floodfill_bg.py lines 143-147 and on: corners are the seed points of line
\* 145, parsed the outcomes of the parse_seed calls of line 147, the first
\* failure of which ends the run
collect_seeds(a, corners, parsed) ==
    IF \E i \in DOMAIN parsed : ~ parsed[i].ok THEN Ended("ValueError", "parse_seed")
    ELSE remove_and_save(a, corners \o [i \in DOMAIN parsed |-> parsed[i].coord])

\* floodfill_bg.py lines 133-171
main(a) ==
    LET w == a.image.width
        h == a.image.height
        \* line 139: validate_seeds(seeds, auto_corners)
        valid == call_validate_seeds(<<a.seeds, a.auto_corners>>)
    IN  IF a.info THEN Ended("info", "info")
        ELSE IF valid # "ok" THEN Ended(valid, "validate_seeds")
        ELSE IF a.global_mode /\ a.eight_way THEN Ended("UsageError", "mode")
        ELSE collect_seeds(a, IF a.auto_corners THEN get_corner_seeds(w, h) ELSE <<>>,
                           [i \in DOMAIN a.seeds |-> parse_seed(a.seeds[i], w, h)])

(***************************************************************************)
(* The command-line run: one call of main.                                 *)
(***************************************************************************)
CliSeeds ==
    {str(<<"0", ",", "0">>), str(<<"1", "0", "0", "%", ",", "0">>),
     str(<<"9", ",", "9">>)}

InitCli ==
    /\ IdleRemoval /\ IdleTrim /\ IdleParse
    /\ cli_in \in [info : BOOLEAN, seeds : SeqsUpTo(CliSeeds, 1),
                   auto_corners : BOOLEAN, threshold : {DefaultThreshold, 4},
                   eight_way : BOOLEAN, global_mode : BOOLEAN, trim : BOOLEAN,
                   image : Buffers(2, Palette)]
    /\ cli_out = None

Main ==
    /\ cli_in # None
    /\ cli_out = None
    /\ cli_out' = main(cli_in)
    /\ UNCHANGED <<cli_in, rvars, tvars, pvars>>

NextCli == Main

SpecCli == InitCli /\ [][NextCli]_vars

(***************************************************************************)
(* Properties of the removal run.  They are stated over the original       *)
(* buffer with their own arithmetic, not with the operators above.         *)
(***************************************************************************)
Pix == Coords(image.width, image.height)

\* squared Euclidean distance of two colours over R, G, B
RgbSq(a, b) ==
    (a[1] - b[1]) ^ 2 + (a[2] - b[2]) ^ 2 + (a[3] - b[3]) ^ 2

\* p's original colour is within threshold of some seed's original colour
Matching(p) ==
    /\ threshold >= 0
    /\ \E i \in DOMAIN seeds :
          RgbSq(image.px[p], image.px[seeds[i]]) <= threshold ^ 2

Abs(n) == IF n < 0 THEN -n ELSE n

\* grid adjacency: 4-neighbour, or 8-neighbour when eight_way is set
Adjacent(p, q) ==
    /\ p # q
    /\ Abs(p[1] - q[1]) <= 1
    /\ Abs(p[2] - q[2]) <= 1
    /\ (eight_way \/ Abs(p[1] - q[1]) + Abs(p[2] - q[2]) = 1)

RECURSIVE Grow(_)
Grow(S) ==
    LET T == S \cup {q \in Pix : Matching(q) /\ \E p \in S : Adjacent(p, q)}
    IN  IF T = S THEN S ELSE Grow(T)

\* the pixels joined to a seed by a path of adjacent matching pixels
Connected == Grow({p \in Range(seeds) : Matching(p)})

FfReturned == pc \in {"returned", "done"}

\* C1: when floodfill_remove has returned (seeds non-empty, threshold >= 0),
\* the pixels it overwrote are exactly those joined to a seed by a path of
\* adjacent matching pixels; each of them is (0,0,0,0) and every other pixel
\* has its original RGBA value.
C1_FloodfillRemovesConnected ==
    (FfReturned /\ seeds # <<>> /\ threshold >= 0) =>
        LET conn == Connected
        IN  \A p \in Pix :
                /\ (ff.writes[p] > 0) <=> (p \in conn)
                /\ ff.pixels[p] = IF p \in conn THEN Transparent ELSE image.px[p]

\* C1 witness: a returned run that left a matching island untouched while
\* removing a pixel other than a seed
C1_Witness ==
    /\ FfReturned /\ seeds # <<>> /\ threshold >= 0
    /\ \E p \in Pix : Matching(p) /\ p \notin Connected /\ ff.writes[p] = 0
                      /\ ff.pixels[p] # Transparent
    /\ \E p \in Pix : p \notin Range(seeds) /\ ff.writes[p] > 0

\* C2: global_purge overwrites exactly the pixels whose original colour is
\* within threshold of a seed's original colour, wherever they are; it counts
\* them, and every other pixel keeps its original RGBA value.
C2_PurgeRemovesAllMatching ==
    pc = "done" =>
        /\ \A p \in Pix :
              /\ (gp.writes[p] > 0) <=> Matching(p)
              /\ gp.pixels[p] = IF Matching(p) THEN Transparent ELSE image.px[p]
        /\ gp.removed = Cardinality({p \in Pix : Matching(p)})

\* C2 witness: the purge overwrote a seed pixel and, later in the scan, a
\* matching pixel that no path of matching pixels joins to a seed
C2_Witness ==
    /\ pc = "done"
    /\ \E p \in Pix : Matching(p) /\ p \notin Connected /\ gp.writes[p] > 0
    /\ \E i \in DOMAIN seeds : gp.pixels[seeds[i]] # image.px[seeds[i]]

\* C3: on identical copies global_purge removes at least as many pixels as
\* floodfill_remove, and when every matching pixel is connected to a seed the
\* two counts and the two resulting buffers are equal.
C3_PurgeAtLeastFloodfill ==
    pc = "done" =>
        /\ gp.removed >= ff.removed
        /\ ({p \in Pix : Matching(p)} \subseteq Connected) =>
              (gp.removed = ff.removed /\ gp.pixels = ff.pixels)

\* C3 witness: both removed the same two or more pixels and kept another
C3_Witness ==
    /\ pc = "done"
    /\ {p \in Pix : Matching(p)} \subseteq Connected
    /\ ff.removed >= 2 /\ gp.removed = ff.removed
    /\ \E p \in Pix : ~ Matching(p)

\* C4: the match is inclusive and on R, G, B only: a tested pixel at squared
\* distance exactly threshold^2 from a seed colour is removed, one farther
\* than threshold^2 from every seed colour is not, and two tested pixels that
\* differ in alpha only share their fate.
C4_InclusiveRgbMatch ==
    pc = "done" =>
        \A p \in Pix :
            /\ (threshold >= 0 /\ \E i \in DOMAIN seeds :
                    RgbSq(image.px[p], image.px[seeds[i]]) = threshold ^ 2)
                 => (gp.writes[p] = 1 /\ (ff.tests[p] = 1 => ff.writes[p] = 1))
            /\ (\A i \in DOMAIN seeds :
                    RgbSq(image.px[p], image.px[seeds[i]]) > threshold ^ 2)
                 => (gp.writes[p] = 0 /\ ff.writes[p] = 0)
            /\ \A q \in Pix :
                 (/\ image.px[p][1] = image.px[q][1]
                  /\ image.px[p][2] = image.px[q][2]
                  /\ image.px[p][3] = image.px[q][3])
                 => /\ gp.writes[p] = gp.writes[q]
                    /\ (ff.tests[p] = 1 /\ ff.tests[q] = 1)
                          => ff.writes[p] = ff.writes[q]

\* C4 witness: a pixel at distance exactly threshold from the seed colour was
\* removed by both, next to two tested pixels that differ in alpha only
C4_Witness ==
    /\ pc = "done" /\ threshold > 0
    /\ \E p \in Pix : \E i \in DOMAIN seeds :
          /\ RgbSq(image.px[p], image.px[seeds[i]]) = threshold ^ 2
          /\ ff.writes[p] = 1 /\ gp.writes[p] = 1
    /\ \E p, q \in Pix :
          /\ image.px[p][4] # image.px[q][4]
          /\ RgbSq(image.px[p], image.px[q]) = 0
          /\ ff.writes[p] = 1 /\ ff.writes[q] = 1

\* the number of pops that passed the visited guard
RECURSIVE SumOver(_, _)
SumOver(f, S) ==
    IF S = {} THEN 0
    ELSE LET x == CHOOSE y \in S : TRUE IN f[x] + SumOver(f, S \ {x})

Passed == IF pc = "call" THEN 0 ELSE SumOver(ff.tests, Pix)

\* C9: floodfill_remove terminates, and at most width*height pops pass the
\* visited guard.
C9_FloodfillTerminates ==
    /\ [](Passed <= image.width * image.height)
    /\ <>FfReturned

\* C9 witness: a run with a duplicated seed returned after three or more
\* pixels passed the guard and each appended its neighbours
C9_Witness ==
    /\ FfReturned
    /\ Len(seeds) = 2 /\ seeds[1] = seeds[2]
    /\ ff.removed >= 3 /\ ff.queue = <<>>

\* C10: every pixel is colour-tested at most once, exactly the visited ones
\* have been tested, no pixel is overwritten twice, and removed is the
\* number of distinct pixels overwritten.
C10_TestedOnce ==
    pc # "call" =>
        /\ \A p \in Pix :
              /\ ff.tests[p] <= 1
              /\ ff.writes[p] <= 1
              /\ ff.visited[p] <=> (ff.tests[p] = 1)
              /\ ff.writes[p] = 1 => ff.pixels[p] = Transparent
        /\ ff.removed = Cardinality({p \in Pix : ff.writes[p] > 0})

\* C10 witness: the pixel at the head of the queue was already visited and
\* removed, and is about to be popped again
C10_Witness ==
    /\ pc = "loop" /\ ff.queue # <<>>
    /\ ff.visited[Head(ff.queue)] /\ ff.writes[Head(ff.queue)] = 1
    /\ ff.removed >= 2


(***************************************************************************)
(* Properties of the trimming run.                                         *)
(***************************************************************************)
TrimPix == Coords(trim_in.width, trim_in.height)
Opaque == {p \in TrimPix : trim_in.px[p][4] # 0}

\* C5: trim_transparent returns the smallest right/bottom-exclusive box that
\* holds every pixel with nonzero alpha, with a new buffer of the box's size
\* whose pixel (i, j) is the input's (left+i, top+j); with no such pixel it
\* returns the input buffer and the box (0, 0, width, height).
C5_TrimBoundingBox ==
    trim_out # NoTrim =>
        LET b == trim_out.bbox
            out == trim_out.image
        IN  IF Opaque = {}
            THEN out = trim_in /\ b = <<0, 0, trim_in.width, trim_in.height>>
            ELSE /\ \A p \in Opaque : b[1] <= p[1] /\ p[1] < b[3]
                                      /\ b[2] <= p[2] /\ p[2] < b[4]
                 /\ \E p \in Opaque : p[1] = b[1]
                 /\ \E p \in Opaque : p[1] = b[3] - 1
                 /\ \E p \in Opaque : p[2] = b[2]
                 /\ \E p \in Opaque : p[2] = b[4] - 1
                 /\ out.width = b[3] - b[1] /\ out.height = b[4] - b[2]
                 /\ DOMAIN out.px = Coords(out.width, out.height)
                 /\ \A q \in Coords(out.width, out.height) :
                        out.px[q] = trim_in.px[<<b[1] + q[1], b[2] + q[2]>>]

\* C5 witness: a trim that cut columns on the left and rows at the top, kept
\* two or more pixels, and cut away a pixel with zero alpha but nonzero RGB
C5_Witness ==
    /\ trim_out # NoTrim /\ Opaque # {}
    /\ trim_out.bbox[1] > 0 /\ trim_out.bbox[2] > 0
    /\ trim_out.image.width * trim_out.image.height >= 2
    /\ \E p \in TrimPix : /\ trim_in.px[p] = <<9, 9, 9, 0>>
                          /\ p[1] < trim_out.bbox[1]


(***************************************************************************)
(* Properties of the resolver run.  What each part of Parts denotes is     *)
(* written down here by hand: text that is no number, a percentage or an   *)
(* absolute value in tenths, an infinity, which is a number in no range,   *)
(* or "nan", which float() accepts and which is not a number.              *)
(***************************************************************************)
NotNumeric ==
    [accepted |-> FALSE, num |-> FALSE, pct |-> FALSE, finite |-> FALSE, tenths |-> 0]
Absolute(t) ==
    [accepted |-> TRUE, num |-> TRUE, pct |-> FALSE, finite |-> TRUE, tenths |-> t]
Percent(t) ==
    [accepted |-> TRUE, num |-> TRUE, pct |-> TRUE, finite |-> TRUE, tenths |-> t]
Infinite(pct) ==
    [accepted |-> TRUE, num |-> TRUE, pct |-> pct, finite |-> FALSE, tenths |-> 0]
NotANumber(pct) ==
    [accepted |-> TRUE, num |-> FALSE, pct |-> pct, finite |-> FALSE, tenths |-> 0]

Denotes ==
    [part \in Parts |->
        CASE part = str(<<"0">>) -> Absolute(0)
          [] part = str(<<"2">>) -> Absolute(20)
          [] part = <<1635>> -> Absolute(30)
          [] part = str(<<"1", "_", "0">>) -> Absolute(100)
          [] part = str(<<"1", "E", "1">>) -> Absolute(100)
          [] part = str(<<"1", ".", "5">>) -> Absolute(15)
          [] part = str(<<"-", "1">>) -> Absolute(-10)
          [] part = str(<<"-", "0">>) -> Absolute(0)
          [] part = <<11, 50, 28>> -> Absolute(20)
          [] part = str(<<"0", "%">>) -> Percent(0)
          [] part = str(<<"5", "0", "%">>) -> Percent(500)
          [] part = str(<<"2", "9", ".", "0", "0", "0", "0", "0", "0", "%">>)
                -> Percent(290)
          [] part = str(<<"1", "0", "0", "%">>) -> Percent(1000)
          [] part = str(<<"1", "0", "1", "%">>) -> Percent(1010)
          [] part = <<53, 48, 12288, 37>> -> Percent(500)
          [] part = str(<<"n", "a", "n">>) -> NotANumber(FALSE)
          [] part = str(<<"I", "n", "f", "%">>) -> Infinite(TRUE)
          \* "a", "", "%", and "50" with \x1c before the "%"
          [] OTHER -> NotNumeric]

\* the part is a percentage in [0, 100] or an absolute value in [0, dim)
InRange(part, dim) ==
    LET d == Denotes[part]
    IN  /\ d.num /\ d.finite
        /\ IF d.pct THEN 0 <= d.tenths /\ d.tenths <= 1000
           ELSE 0 <= d.tenths /\ d.tenths < 10 * dim

\* the error kind of a ValueError message of parse_seed
Kind(msg) ==
    CASE msg = "Seed must be x,y" -> "InvalidFormat"
      [] msg = "Invalid number" -> "InvalidNumber"
      [] msg \in {"Percentage must be 0-100", "Coordinate out of range"} -> "OutOfRange"
      [] OTHER -> "none"

\* the kind the i-th part fails with on its own, "none" if it does not:
\* InvalidNumber for text float() does not accept, OutOfRange for anything
\* else that is not a number in range
PartFails(i) ==
    IF ~ Denotes[seed_parts[i]].accepted THEN "InvalidNumber"
    ELSE IF ~ InRange(seed_parts[i], dims[i]) THEN "OutOfRange"
    ELSE "none"

Parsed == parse_out # None

\* C6, as amended: parse_seed fails with InvalidFormat when the string has not
\* exactly two comma-separated parts.  Otherwise the parts are examined in
\* order, x before y, and the first part that fails decides the kind:
\* InvalidNumber when float() does not accept the part, OutOfRange when it
\* accepts it and the value is not a percentage in [0, 100] or an absolute
\* value in [0, dimension), which is the case of "nan" and of the infinities.
\* The three kinds are distinct, parse_seed succeeds exactly when no part
\* fails, and a failing call returns no coordinate.
C6_ParseSeedErrors ==
    Parsed =>
        /\ IF Len(seed_parts) # 2 THEN Kind(parse_out.error) = "InvalidFormat"
           ELSE IF PartFails(1) # "none" THEN Kind(parse_out.error) = PartFails(1)
           ELSE IF PartFails(2) # "none" THEN Kind(parse_out.error) = PartFails(2)
           ELSE parse_out.ok
        /\ parse_out.ok <=> (Kind(parse_out.error) = "none")
        /\ ~ parse_out.ok => parse_out.coord = None

\* C6 witness: x is out of range and y is not numeric, and parse_seed failed
\* with the kind of x
C6_Witness ==
    /\ Parsed /\ Len(seed_parts) = 2
    /\ PartFails(1) = "OutOfRange" /\ PartFails(2) = "InvalidNumber"
    /\ Kind(parse_out.error) = "OutOfRange"

\* C6, as stated: parse_seed fails with InvalidFormat when the string has not
\* exactly two comma-separated parts, with InvalidNumber when a part is not
\* numeric, and with OutOfRange when a percentage is outside [0, 100] or an
\* absolute value outside [0, dimension); a failing call returns no
\* coordinate.
C6_AsStated ==
    Parsed =>
        /\ Len(seed_parts) # 2 => Kind(parse_out.error) = "InvalidFormat"
        /\ (/\ Len(seed_parts) = 2
            /\ \E i \in 1 .. 2 : ~ Denotes[seed_parts[i]].num)
              => Kind(parse_out.error) = "InvalidNumber"
        /\ (/\ Len(seed_parts) = 2
            /\ \E i \in 1 .. 2 : /\ Denotes[seed_parts[i]].num
                                 /\ ~ InRange(seed_parts[i], dims[i]))
              => Kind(parse_out.error) = "OutOfRange"
        /\ ~ parse_out.ok => parse_out.coord = None

\* C7: every coordinate parse_seed returns is inside the image, 0% is index 0
\* and 100% is index dimension-1; the four corner seeds are inside the image.
C7_ResolvedSeedsInBounds ==
    /\ (Parsed /\ parse_out.ok) =>
          \A i \in 1 .. 2 :
              /\ 0 <= parse_out.coord[i] /\ parse_out.coord[i] < dims[i]
              /\ Denotes[seed_parts[i]] = Percent(0) => parse_out.coord[i] = 0
              /\ Denotes[seed_parts[i]] = Percent(1000)
                    => parse_out.coord[i] = dims[i] - 1
    /\ corner_out # None =>
          /\ Len(corner_out) = 4
          /\ \A k \in 1 .. 4 :
                /\ 0 <= corner_out[k][1] /\ corner_out[k][1] < dims[1]
                /\ 0 <= corner_out[k][2] /\ corner_out[k][2] < dims[2]

\* C7 witness: "100%" resolved to the last column of an image more than one
\* pixel wide, an absolute y resolved too, and the corners were computed
C7_Witness ==
    /\ Parsed /\ parse_out.ok /\ corner_out # None
    /\ dims[1] > 1 /\ dims[2] > 1
    /\ Denotes[seed_parts[1]] = Percent(1000) /\ parse_out.coord[1] = dims[1] - 1
    /\ ~ Denotes[seed_parts[2]].pct /\ parse_out.coord[2] > 0


(***************************************************************************)
(* Properties of the command-line run.                                     *)
(***************************************************************************)
NoSeedSource ==
    cli_in.seeds = <<>> /\ ~ cli_in.auto_corners /\ ~ cli_in.trim

SeedsResolve ==
    \A i \in DOMAIN cli_in.seeds :
        parse_seed(cli_in.seeds[i], cli_in.image.width, cli_in.image.height).ok

\* C8: a run that is not an --info run is rejected by the seed-source
\* validation with a usage error exactly when no seed, no auto-corners flag
\* and no trim flag is given; with any of the three the validation passes,
\* and (the options being otherwise valid) the run goes on to removal,
\* removing 0 pixels when there are no seeds, and to trimming and saving.
C8_SeedSourceValidation ==
    (cli_out # None /\ ~ cli_in.info) =>
        /\ (cli_out.stage = "validate_seeds" /\ cli_out.exit = "UsageError")
              <=> NoSeedSource
        /\ ~ NoSeedSource => cli_out.stage # "validate_seeds"
        /\ (/\ ~ NoSeedSource
            /\ ~ (cli_in.global_mode /\ cli_in.eight_way)
            /\ SeedsResolve)
              => /\ cli_out.exit = "saved"
                 /\ (cli_in.seeds = <<>> /\ ~ cli_in.auto_corners)
                       => cli_out.removed = 0

=============================================================================
